---- MODULE Spec2Model ----
(***************************************************************************)
(* Liverton-Learning utility scripts.                                      *)
(*                                                                         *)
(*   create_editing_tools_spreadsheet.py  builds a four-sheet workbook     *)
(*       from literal tables (SheetSpec);                                  *)
(*   generate-icons.py                    scales one logo into a fixed     *)
(*       list of square PWA icons (IconSpec).                              *)
(*                                                                         *)
(* Both scripts are straight-line programs; each is modelled as a          *)
(* sequential process whose position is a program counter.                 *)
(***************************************************************************)
EXTENDS Integers, Sequences, FiniteSets, TLC

VARIABLES
    \* ---- create_editing_tools_spreadsheet.py ----
    spc,                \* position in the script: <<stage, sheet number>>
    si,                 \* 1-based position of the running for loop
    current_category,   \* the script's global of that name
    sheets,             \* the workbook's sheet titles, in workbook order
    cells,              \* <<sheet, row, column>> -> cell, for the cells that exist
    merged,             \* merged ranges: <<sheet, range>>
    widths,             \* <<sheet, column letter>> -> column width
    saved,              \* wb.save has returned
    \* ---- generate-icons.py ----
    ipc,                \* position in main()
    ii,                 \* 1-based position in ICON_SIZES
    source,             \* the logo file on disk: [w, h, mode]
    tieUp,              \* how float rounding orders two equally good sizes
    img,                \* the image object of the latest create_icon call
    files,              \* the output directory: file name -> written icon
    dirCreated,         \* os.makedirs has returned
    raised,             \* an exception has left main()
    openError           \* the file whose create_icon call could not open the logo

sheetVars == <<spc, si, current_category, sheets, cells, merged, widths, saved>>
iconVars == <<ipc, ii, source, tieUp, img, files, dirCreated, raised, openError>>
vars == <<spc, si, current_category, sheets, cells, merged, widths, saved,
          ipc, ii, source, tieUp, img, files, dirCreated, raised, openError>>

(***************************************************************************)
(*                create_editing_tools_spreadsheet.py                      *)
(***************************************************************************)

headers1 == <<"Category", "Tool", "Description">>

word_data == <<
    <<"Text Manipulation", "Cut", "Remove selected text and place it on clipboard">>,
    <<"", "Copy", "Duplicate selected text to clipboard">>,
    <<"", "Paste", "Insert clipboard content at cursor position">>,
    <<"", "Paste Special", "Insert with specific formatting options">>,
    <<"", "Undo", "Reverse the last action">>,
    <<"", "Redo", "Reapply the last undone action">>,
    <<"", "Select All", "Highlight all content in the document">>,
    <<"", "Find", "Search for specific text">>,
    <<"", "Find & Replace", "Search and substitute text throughout document">>,
    <<"Review & Proofing", "Spell Check", "Identify and correct spelling errors">>,
    <<"", "Grammar Check", "Detect grammar and style issues">>,
    <<"", "Word Count", "Display statistics (words, characters, pages)">>,
    <<"", "Translate", "Convert text to different languages">>,
    <<"", "Track Changes", "Record edits for review">>,
    <<"", "Suggesting Mode", "Propose changes without altering original">>,
    <<"", "Comments", "Add notes and feedback">>,
    <<"", "Review Changes", "Accept or reject tracked modifications">>,
    <<"", "Compare Documents", "Highlight differences between versions">>,
    <<"Voice & Input", "Voice Typing", "Dictate text using speech recognition">> >>

spreadsheet_data == <<
    <<"Cell Editing", "Insert Row/Column", "Add new rows or columns">>,
    <<"", "Delete Row/Column", "Remove rows or columns">>,
    <<"", "Merge Cells", "Combine multiple cells into one">>,
    <<"", "Split Cells", "Divide merged cells">>,
    <<"", "Wrap Text", "Allow text to display on multiple lines">>,
    <<"", "Text Rotation", "Change text orientation">>,
    <<"", "Clear Contents", "Remove data while keeping formatting">>,
    <<"", "Fill Down", "Copy formula/content to cells below">>,
    <<"", "Fill Right", "Copy formula/content to cells right">>,
    <<"", "Find & Replace", "Search and replace cell content">>,
    <<"Data Manipulation", "Sort", "Arrange data alphabetically or numerically">>,
    <<"", "Filter", "Display only rows meeting criteria">>,
    <<"", "Remove Duplicates", "Eliminate repeated entries">>,
    <<"", "Data Validation", "Restrict input with rules">>,
    <<"", "Freeze Rows/Columns", "Keep headers visible while scrolling">>,
    <<"", "Hide / Unhide", "Conceal or reveal rows/columns">>,
    <<"", "Group / Ungroup", "Create collapsible data sections">>,
    <<"Calculation", "Functions", "Built-in formulas (SUM, AVERAGE, IF, etc.)">>,
    <<"", "AutoSum", "Quick sum of selected cells">>,
    <<"", "Formula Bar", "Edit cell formulas">>,
    <<"", "Recalculate", "Update all formula results">> >>

presentation_data == <<
    <<"Slide Editing", "New Slide", "Add a blank slide">>,
    <<"", "Duplicate Slide", "Create a copy of existing slide">>,
    <<"", "Delete Slide", "Remove a slide">>,
    <<"", "Reorder Slides", "Change slide sequence">>,
    <<"", "Slide Layouts", "Apply pre-designed arrangements">>,
    <<"", "Reset Slide", "Restore layout to default">>,
    <<"Object Editing", "Align Objects", "Position multiple items (left, center, right)">>,
    <<"", "Arrange Layers", "Bring to front / Send to back">>,
    <<"", "Group Objects", "Combine multiple items">>,
    <<"", "Ungroup", "Separate grouped items">>,
    <<"", "Rotate", "Turn objects at angles">>,
    <<"", "Flip", "Mirror objects horizontally or vertically">>,
    <<"", "Crop", "Trim image edges">>,
    <<"", "Resize", "Change object dimensions">>,
    <<"Visual Adjustments", "Backgrounds", "Change slide background color/image">>,
    <<"", "Themes", "Apply design templates">>,
    <<"", "Master Slide Edits", "Modify template for all slides">>,
    <<"Animation & Timing", "Entrance Animations", "Effects for objects appearing">>,
    <<"", "Exit Animations", "Effects for objects disappearing">>,
    <<"", "Motion Paths", "Define movement trajectories">>,
    <<"", "Timing Control", "Adjust animation speed and delays">>,
    <<"", "Trigger Actions", "Set animation start conditions">> >>

headers_ref == <<"Category", "Primary Tools", "Advanced Features", "Total Tools">>

\* A mis-maintained summary: the first total was not raised with the list.
ref_data_stale == <<
    <<"Word Processors", "Cut, Copy, Paste, Find & Replace",
      "Track Changes, Compare, Voice Typing", <<"1", "8">> >>,
    <<"Spreadsheets", "Insert/Delete, Sort, Filter",
      "Data Validation, Functions, Freeze", <<"2", "1">> >>,
    <<"Presentations", "New/Duplicate Slides, Layouts",
      "Animations, Master Slides, Grouping", <<"2", "2">> >> >>

\* The fourth field is a Python str ('19'); a str is modelled as the sequence
\* of its characters so that its numeric reading is computed, not assumed.
ref_data == <<
    <<"Word Processors", "Cut, Copy, Paste, Find & Replace",
      "Track Changes, Compare, Voice Typing", <<"1", "9">> >>,
    <<"Spreadsheets", "Insert/Delete, Sort, Filter",
      "Data Validation, Functions, Freeze", <<"2", "1">> >>,
    <<"Presentations", "New/Duplicate Slides, Layouts",
      "Animations, Master Slides, Grouping", <<"2", "2">> >> >>

\* ws1.title and the create_sheet(title=...) arguments, by sheet number.
SheetTitle == <<"Word Processors", "Spreadsheets", "Presentations", "Quick Reference">>

\* The text put in A1 of each sheet.
Banner == <<"WORD PROCESSORS (Word / Docs)", "SPREADSHEETS (Excel / Sheets)",
            "PRESENTATIONS (PowerPoint / Slides)", "QUICK REFERENCE SUMMARY">>

\* The range merged on each sheet.
TitleRange == <<"A1:C1", "A1:C1", "A1:C1", "A1:D1">>

\* The source list of each domain sheet.
DataOf(k) == CASE k = 1 -> word_data
               [] k = 2 -> spreadsheet_data
               [] k = 3 -> presentation_data

\* A cell openpyxl has just created: value None, default style.
BlankCell == [value |-> "None", fill |-> "none", font |-> "default", alignment |-> "general"]

CellAt(c, k, row, col) == IF <<k, row, col>> \in DOMAIN c THEN c[<<k, row, col>>] ELSE BlankCell

\* ws.cell(row, column, value): the cell is created when absent, its value set,
\* its style kept.
SetValue(c, k, row, col, v) ==
    [x \in DOMAIN c \cup {<<k, row, col>>} |->
        IF x = <<k, row, col>> THEN [CellAt(c, k, row, col) EXCEPT !.value = v] ELSE c[x]]

\* cell.fill = ..., cell.font = ..., cell.alignment = ...
SetStyle(c, k, row, col, fill, font, alignment) ==
    [x \in DOMAIN c \cup {<<k, row, col>>} |->
        IF x = <<k, row, col>>
        THEN [CellAt(c, k, row, col) EXCEPT !.fill = fill, !.font = font,
                                             !.alignment = alignment]
        ELSE c[x]]

\* The script's stages in program order.
Script == << <<"title", 1>>, <<"headers", 1>>, <<"reset", 1>>, <<"write", 1>>, <<"style", 1>>,
             <<"title", 2>>, <<"headers", 2>>, <<"reset", 2>>, <<"write", 2>>, <<"style", 2>>,
             <<"title", 3>>, <<"headers", 3>>, <<"reset", 3>>, <<"write", 3>>, <<"style", 3>>,
             <<"title", 4>>, <<"headers", 4>>, <<"ref", 4>>,
             <<"widths", 0>>, <<"widths4", 4>>, <<"save", 0>>, <<"done", 0>> >>

Pos(stage) == CHOOSE n \in 1..Len(Script) : Script[n] = stage

\* The stage that follows `stage` in the script.
Following(stage) == Script[Pos(stage) + 1]

\* Lines 9-21, 65-69, 112-116, 160-164: the sheet is obtained (wb.active for
\* the first, create_sheet for the others), titled, and its banner written.
Title(k) ==
    /\ spc = <<"title", k>>
    /\ sheets' = IF k = 1 THEN [sheets EXCEPT ![1] = SheetTitle[1]]
                          ELSE Append(sheets, SheetTitle[k])
    /\ cells' = SetStyle(SetValue(cells, k, 1, 1, Banner[k]), k, 1, 1,
                         "none", "title_font", "general")
    /\ merged' = merged \cup {<<k, TitleRange[k]>>}
    /\ spc' = Following(spc)
    /\ si' = 1
    /\ UNCHANGED <<current_category, widths, saved>>

\* One iteration of a header loop: for col, header in enumerate(hs, 1).
Headers(k, hs) ==
    /\ spc = <<"headers", k>>
    /\ si <= Len(hs)
    /\ cells' = SetStyle(SetValue(cells, k, 2, si, hs[si]), k, 2, si,
                         "header_fill", "header_font", "center")
    /\ IF si < Len(hs)
       THEN /\ si' = si + 1
            /\ spc' = spc
       ELSE /\ si' = 1
            /\ spc' = Following(spc)
    /\ UNCHANGED <<current_category, sheets, merged, widths, saved>>

\* current_category = '' before each fill loop.
ResetCategory(k) ==
    /\ spc = <<"reset", k>>
    /\ current_category' = ""
    /\ si' = 1
    /\ spc' = Following(spc)
    /\ UNCHANGED <<sheets, cells, merged, widths, saved>>

\* A fill loop that shows only what the triple itself says.
DisplayCategoryRaw(category, cur) == category

\* category if category else current_category
DisplayCategory(category, cur) == IF category # "" THEN category ELSE cur

\* A fill loop that styles every row.
TruthyAlways(category) == TRUE

\* Python's truth value of a str: if category:
Truthy(category) == category # ""

\* The three ws.cell(...) writes of one iteration; row_idx = si + 2.
WriteRow(k, data) ==
    /\ spc = <<"write", k>>
    /\ si <= Len(data)
    /\ cells' = SetValue(
                  SetValue(
                    SetValue(cells, k, si + 2, 1,
                             DisplayCategory(data[si][1], current_category)),
                    k, si + 2, 2, data[si][2]),
                  k, si + 2, 3, data[si][3])
    /\ spc' = <<"style", k>>
    /\ UNCHANGED <<si, current_category, sheets, merged, widths, saved>>

\* The if category: block of the same iteration, then the loop's step.
StyleRow(k, data) ==
    /\ spc = <<"style", k>>
    /\ IF Truthy(data[si][1])
       THEN /\ current_category' = data[si][1]
            /\ cells' = SetStyle(cells, k, si + 2, 1, "category_fill", "category_font",
                                 CellAt(cells, k, si + 2, 1).alignment)
       ELSE UNCHANGED <<current_category, cells>>
    /\ IF si < Len(data)
       THEN /\ si' = si + 1
            /\ spc' = <<"write", k>>
       ELSE /\ si' = 1
            /\ spc' = Following(spc)
    /\ UNCHANGED <<sheets, merged, widths, saved>>

TitleWord == Title(1) /\ UNCHANGED iconVars
HeadersWord == Headers(1, headers1) /\ UNCHANGED iconVars
ResetWord == ResetCategory(1) /\ UNCHANGED iconVars
WriteWord == WriteRow(1, word_data) /\ UNCHANGED iconVars
StyleWord == StyleRow(1, word_data) /\ UNCHANGED iconVars

TitleSpreadsheets == Title(2) /\ UNCHANGED iconVars
HeadersSpreadsheets == Headers(2, headers1) /\ UNCHANGED iconVars
ResetSpreadsheets == ResetCategory(2) /\ UNCHANGED iconVars
WriteSpreadsheets == WriteRow(2, spreadsheet_data) /\ UNCHANGED iconVars
StyleSpreadsheets == StyleRow(2, spreadsheet_data) /\ UNCHANGED iconVars

TitlePresentations == Title(3) /\ UNCHANGED iconVars
HeadersPresentations == Headers(3, headers1) /\ UNCHANGED iconVars
ResetPresentations == ResetCategory(3) /\ UNCHANGED iconVars
WritePresentations == WriteRow(3, presentation_data) /\ UNCHANGED iconVars
StylePresentations == StyleRow(3, presentation_data) /\ UNCHANGED iconVars

TitleReference == Title(4) /\ UNCHANGED iconVars
HeadersReference == Headers(4, headers_ref) /\ UNCHANGED iconVars

\* One iteration of the Quick Reference loop: four plain cell writes.
RefRow ==
    /\ spc = <<"ref", 4>>
    /\ si <= Len(ref_data)
    /\ cells' = SetValue(
                  SetValue(
                    SetValue(
                      SetValue(cells, 4, si + 2, 1, ref_data[si][1]),
                      4, si + 2, 2, ref_data[si][2]),
                    4, si + 2, 3, ref_data[si][3]),
                  4, si + 2, 4, ref_data[si][4])
    /\ IF si < Len(ref_data)
       THEN /\ si' = si + 1
            /\ spc' = spc
       ELSE /\ si' = 1
            /\ spc' = Following(spc)
    /\ UNCHANGED <<current_category, sheets, merged, widths, saved>>
    /\ UNCHANGED iconVars

SetWidths(w, k, ws) ==
    [x \in DOMAIN w \cup {<<k, c>> : c \in DOMAIN ws} |->
        IF x[1] = k /\ x[2] \in DOMAIN ws THEN ws[x[2]] ELSE w[x]]

\* for ws in [ws1, ws2, ws3]: one iteration.
DomainWidths ==
    /\ spc = <<"widths", 0>>
    /\ si <= 3
    /\ widths' = SetWidths(widths, si, [A |-> 25, B |-> 25, C |-> 50])
    /\ IF si < 3
       THEN /\ si' = si + 1
            /\ spc' = spc
       ELSE /\ si' = 1
            /\ spc' = Following(spc)
    /\ UNCHANGED <<current_category, sheets, cells, merged, saved>>
    /\ UNCHANGED iconVars

ReferenceWidths ==
    /\ spc = <<"widths4", 4>>
    /\ widths' = SetWidths(widths, 4, [A |-> 20, B |-> 35, C |-> 40, D |-> 15])
    /\ spc' = Following(spc)
    /\ UNCHANGED <<si, current_category, sheets, cells, merged, saved>>
    /\ UNCHANGED iconVars

Save ==
    /\ spc = <<"save", 0>>
    /\ saved' = TRUE
    /\ spc' = Following(spc)
    /\ UNCHANGED <<si, current_category, sheets, cells, merged, widths>>
    /\ UNCHANGED iconVars

\* openpyxl.Workbook(): one sheet, named "Sheet", no cells.
SheetInit ==
    /\ spc = <<"title", 1>>
    /\ si = 1
    /\ current_category = ""
    /\ sheets = <<"Sheet">>
    /\ cells = << >>
    /\ merged = {}
    /\ widths = << >>
    /\ saved = FALSE
    /\ ipc = "off"
    /\ ii = 1
    /\ source = [w |-> 1, h |-> 1, mode |-> "RGBA"]
    /\ tieUp = FALSE
    /\ img = [w |-> 0, h |-> 0, mode |-> "none"]
    /\ files = << >>
    /\ dirCreated = FALSE
    /\ raised = FALSE
    /\ openError = <<"none", 0, "">>

SheetNext ==
    \/ TitleWord \/ HeadersWord \/ ResetWord \/ WriteWord \/ StyleWord
    \/ TitleSpreadsheets \/ HeadersSpreadsheets \/ ResetSpreadsheets
    \/ WriteSpreadsheets \/ StyleSpreadsheets
    \/ TitlePresentations \/ HeadersPresentations \/ ResetPresentations
    \/ WritePresentations \/ StylePresentations
    \/ TitleReference \/ HeadersReference \/ RefRow
    \/ DomainWidths \/ ReferenceWidths \/ Save

SheetSpec == SheetInit /\ [][SheetNext]_vars

(***************************************************************************)
(*                         generate-icons.py                               *)
(***************************************************************************)

ICON_SIZES == <<48, 72, 96, 120, 128, 144, 152, 180, 192, 256, 384, 512, 1024>>

\* if size in [192, 512]
MaskableSizes == {192, 512}

\* The size of the apple-touch icon.
AppleSize == 180

\* Source logos up to MaxDim pixels a side are all tried ...
MaxDim == 42

\* ... and a few larger ones, on both sides of the larger icons' logo boxes.
LargeDims == {58, 100, 116, 300, 820, 1024, 2000}

Dims == (1..MaxDim) \cup LargeDims

Max(a, b) == IF a >= b THEN a ELSE b

Abs(a) == IF a >= 0 THEN a ELSE 0 - a

\* No image object yet.
NoImage == [w |-> 0, h |-> 0, mode |-> "none"]

\* A script that loads the logo once and hands the same object to every call.
OpenImageOnce == IF img = NoImage THEN source ELSE img

\* Image.open(input_path): a fresh image object with the file's content.
OpenImage == source

\* No inset at all.
PaddingNone(size, maskable) == 0

\* int(size * 0.2) for maskable, int(size * 0.1) otherwise.  For the sizes of
\* ICON_SIZES the truncated float product is the floor of the exact product.
Padding(size, maskable) == IF maskable THEN (size * 2) \div 10 ELSE size \div 10

MaxLogoSize(size, maskable) == size - 2 * Padding(size, maskable)

\* Pillow's round_aspect for a portrait or square image (x/y >= aspect): of
\* floor and ceil of box*W/H, the one whose ratio to box is nearer W/H, and at
\* least 1.  The keys are floats; when they are equal in exact arithmetic the
\* float rounding decides, which is the input `up`.
RoundAspectWidth(W, H, box, up) ==
    LET f == (box * W) \div H
        c == IF (box * W) % H = 0 THEN f ELSE f + 1
        kf == Abs(W * box - f * H)
        kc == Abs(W * box - c * H)
        n == IF kf < kc THEN f ELSE IF kc < kf THEN c ELSE IF up THEN c ELSE f
    IN  Max(n, 1)

\* The same for a landscape image: floor or ceil of box*H/W, by |W/H - box/n|,
\* the key of 0 being 0.
RoundAspectHeight(W, H, box, up) ==
    LET f == (box * H) \div W
        c == IF (box * H) % W = 0 THEN f ELSE f + 1
        kf == Abs(W * f - box * H) * c
        kc == Abs(W * c - box * H) * f
        n == IF f = 0 THEN 0
             ELSE IF kf < kc THEN f ELSE IF kc < kf THEN c ELSE IF up THEN c ELSE f
    IN  Max(n, 1)

\* The colour a logo pixel leaves on the canvas: the logo's content is not
\* modelled, only that such a pixel is no longer the canvas background.
LogoInk == <<0, 0, 0, 255>>

\* A resize to the box whatever the image's size.
ThumbnailResize(im, box, up) ==
    IF im.w <= im.h
    THEN [im EXCEPT !.w = RoundAspectWidth(im.w, im.h, box, up), !.h = box]
    ELSE [im EXCEPT !.w = box, !.h = RoundAspectHeight(im.w, im.h, box, up)]

\* img.thumbnail((box, box), LANCZOS): the image as it is when it fits the
\* box, otherwise scaled to the box keeping the aspect ratio.  The size rule
\* is that of the Pillow releases that have Image.Resampling (9.1 and later).
Thumbnail(im, box, up) ==
    IF box >= im.w /\ box >= im.h THEN im
    ELSE IF im.w <= im.h
    THEN [im EXCEPT !.w = RoundAspectWidth(im.w, im.h, box, up), !.h = box]
    ELSE [im EXCEPT !.w = box, !.h = RoundAspectHeight(im.w, im.h, box, up)]

White == <<255, 255, 255, 255>>

Transparent == <<255, 255, 255, 0>>

\* A canvas as high as the logo box.
NewCanvasInset(size, maskable) ==
    [w |-> size, h |-> size - 2 * Padding(size, maskable),
     bg |-> IF maskable THEN White ELSE Transparent]

\* Image.new('RGBA', (size, size), colour)
NewCanvas(size, maskable) ==
    [w |-> size, h |-> size, bg |-> IF maskable THEN White ELSE Transparent]

\* The offset with the division applied to the canvas side alone.
CentreOffsetUnparenthesised(size, extent) == size \div 2 - extent

\* (size - img.width) // 2
CentreOffset(size, extent) == (size - extent) \div 2

\* square_img.paste(img, (x, y), mask): the canvas with the logo's rectangle
\* [x, x+w) x [y, y+h) recorded, and its four corner pixels.  A corner pixel
\* inside the rectangle takes its colour from the logo.
Paste(canvas, logo, x, y) ==
    LET covered(px, py) == /\ x <= px /\ px < x + logo.w
                           /\ y <= py /\ py < y + logo.h
        pixel(px, py) == IF covered(px, py)
                         THEN [of |-> "logo", rgba |-> LogoInk]
                         ELSE [of |-> "canvas", rgba |-> canvas.bg]
    IN  [w |-> canvas.w, h |-> canvas.h, bg |-> canvas.bg,
         logo_w |-> logo.w, logo_h |-> logo.h, x |-> x, y |-> y,
         mask |-> (logo.mode = "RGBA"),
         corners |-> << pixel(0, 0), pixel(canvas.w - 1, 0),
                        pixel(0, canvas.h - 1), pixel(canvas.w - 1, canvas.h - 1) >>]

\* One name for both variants of a size.
IconNameNoSuffix(size, maskable) == <<"icon", size, ".png">>

\* f'icon-{size}x{size}.png' and f'icon-{size}x{size}-maskable.png'
IconName(size, maskable) ==
    <<"icon", size, IF maskable THEN "-maskable.png" ELSE ".png">>

\* 'apple-touch-icon.png' (the name holds no number)
AppleName == <<"apple-touch-icon", 0, ".png">>

\* No call has failed.
NoCall == <<"none", 0, "">>

\* The output file of the create_icon call main() is about to make.
CurrentCall ==
    IF ipc = "apple" THEN AppleName ELSE IconName(ICON_SIZES[ii], ipc = "maskable")

\* os.makedirs(output_dir, exist_ok=True)
MakeDirs ==
    /\ ipc = "makedirs"
    /\ ~raised
    /\ dirCreated' = TRUE
    /\ ipc' = "standard"
    /\ UNCHANGED <<ii, source, tieUp, img, files, raised, openError>>
    /\ UNCHANGED sheetVars

\* create_icon(input_logo, name, size, maskable) returning normally.
CreateIcon(name, size, maskable) ==
    LET opened == OpenImage
        square_img == NewCanvas(size, maskable)
        max_logo_size == MaxLogoSize(size, maskable)
        logo == Thumbnail(opened, max_logo_size, tieUp)
        x == CentreOffset(size, logo.w)
        y == CentreOffset(size, logo.h)
    IN  /\ img' = logo
        /\ files' = [n \in DOMAIN files \cup {name} |->
                        IF n = name THEN Paste(square_img, logo, x, y) ELSE files[n]]

\* What main() does after the calls of one loop iteration.
NextSize ==
    IF ii < Len(ICON_SIZES)
    THEN /\ ii' = ii + 1
         /\ ipc' = "standard"
    ELSE /\ ii' = ii
         /\ ipc' = "apple"

\* The standard icon of the loop's current size.
StandardIcon ==
    /\ ipc = "standard"
    /\ ~raised
    /\ CreateIcon(IconName(ICON_SIZES[ii], FALSE), ICON_SIZES[ii], FALSE)
    /\ IF ICON_SIZES[ii] \in MaskableSizes
       THEN /\ ipc' = "maskable"
            /\ ii' = ii
       ELSE NextSize
    /\ UNCHANGED <<source, tieUp, dirCreated, raised, openError>>
    /\ UNCHANGED sheetVars

\* The maskable icon of the loop's current size.
MaskableIcon ==
    /\ ipc = "maskable"
    /\ ~raised
    /\ CreateIcon(IconName(ICON_SIZES[ii], TRUE), ICON_SIZES[ii], TRUE)
    /\ NextSize
    /\ UNCHANGED <<source, tieUp, dirCreated, raised, openError>>
    /\ UNCHANGED sheetVars

\* The apple-touch icon, after the loop.
AppleIcon ==
    /\ ipc = "apple"
    /\ ~raised
    /\ CreateIcon(AppleName, AppleSize, FALSE)
    /\ ipc' = "done"
    /\ UNCHANGED <<ii, source, tieUp, dirCreated, raised, openError>>
    /\ UNCHANGED sheetVars

\* A loop that catches the error and goes on with the next call.
OpenFailsContained ==
    /\ ipc \in {"standard", "maskable", "apple"}
    /\ ~raised
    /\ openError' = CurrentCall
    /\ IF ipc = "apple"
       THEN /\ ipc' = "done"
            /\ ii' = ii
       ELSE IF ipc = "standard" /\ ICON_SIZES[ii] \in MaskableSizes
       THEN /\ ipc' = "maskable"
            /\ ii' = ii
       ELSE NextSize
    /\ UNCHANGED <<source, tieUp, img, files, dirCreated, raised>>
    /\ UNCHANGED sheetVars

\* Image.open raises in the call main() is about to make (the logo is missing
\* or unreadable): nothing catches it, and the interpreter stops there.
OpenFails ==
    /\ ipc \in {"standard", "maskable", "apple"}
    /\ ~raised
    /\ raised' = TRUE
    /\ openError' = CurrentCall
    /\ UNCHANGED <<ipc, ii, source, tieUp, img, files, dirCreated>>
    /\ UNCHANGED sheetVars

\* The script starts with some logo on disk and an empty output directory.
IconInit ==
    /\ ipc = "makedirs"
    /\ ii = 1
    /\ source \in [w : Dims, h : Dims, mode : {"RGBA", "RGB"}]
    /\ tieUp \in BOOLEAN
    /\ img = NoImage
    /\ files = << >>
    /\ dirCreated = FALSE
    /\ raised = FALSE
    /\ openError = NoCall
    /\ spc = <<"off", 0>>
    /\ si = 1
    /\ current_category = ""
    /\ sheets = << >>
    /\ cells = << >>
    /\ merged = {}
    /\ widths = << >>
    /\ saved = FALSE

IconNext == MakeDirs \/ StandardIcon \/ MaskableIcon \/ AppleIcon \/ OpenFails

IconSpec == IconInit /\ [][IconNext]_vars


(***************************************************************************)
(*                 Properties of the workbook script                       *)
(***************************************************************************)

\* The fill loop of domain sheet k has run to its end.
FillDone(k) == Pos(spc) > Pos(<<"style", k>>)

\* The rows below the header row that hold at least one cell.
DataRows(k) == {x[2] : x \in {y \in DOMAIN cells : y[1] = k /\ y[2] >= 3}}

\* The cell styled as the first row of a category run.
CategoryStyled(k, row) ==
    /\ CellAt(cells, k, row, 1).fill = "category_fill"
    /\ CellAt(cells, k, row, 1).font = "category_font"

\* The cell left in the style openpyxl gives a new cell.
Unstyled(k, row) ==
    /\ CellAt(cells, k, row, 1).fill = "none"
    /\ CellAt(cells, k, row, 1).font = "default"

\* C1: once the fill loop of a domain sheet is over, the sheet holds exactly
\* len(L) data rows, at rows 3..len(L)+2 in list order; the category cell of
\* the row of entry i holds the nearest non-empty category at or before i in
\* the sheet's own list L, and tool and description are those of entry i.
C1_RunLengthDecode ==
    \A k \in 1..3 :
        FillDone(k) =>
            LET L == DataOf(k) IN
            /\ DataRows(k) = 3..(Len(L) + 2)
            /\ \A i \in 1..Len(L) :
                /\ \E j \in 1..i :
                    /\ L[j][1] # ""
                    /\ \A m \in (j + 1)..i : L[m][1] = ""
                    /\ CellAt(cells, k, i + 2, 1).value = L[j][1]
                /\ CellAt(cells, k, i + 2, 2).value = L[i][2]
                /\ CellAt(cells, k, i + 2, 3).value = L[i][3]

\* C1 witness: the script has ended and the last Presentations row, whose
\* source category is empty, shows the category of five entries before.
C1_Witness ==
    /\ spc = <<"done", 0>>
    /\ presentation_data[22][1] = ""
    /\ CellAt(cells, 3, 24, 1).value = "Animation & Timing"
    /\ CellAt(cells, 2, 3, 1).value = "Cell Editing"

\* C2: once the fill loop of a domain sheet is over, a data row's category
\* cell carries the category fill and font exactly when its source triple has
\* a non-empty category; a continuation row shows the carried category text in
\* the default style; so the styled rows are exactly the first rows of the
\* category runs.
C2_StyleOnlyRunStart ==
    \A k \in 1..3 :
        FillDone(k) =>
            LET L == DataOf(k) IN
            \A i \in 1..Len(L) :
                /\ CategoryStyled(k, i + 2) <=> (L[i][1] # "")
                /\ (L[i][1] = "") =>
                      /\ Unstyled(k, i + 2)
                      /\ CellAt(cells, k, i + 2, 1).value # ""
                /\ CategoryStyled(k, i + 2) <=>
                      \/ i = 1
                      \/ CellAt(cells, k, i + 2, 1).value # CellAt(cells, k, i + 1, 1).value

\* C2 witness: on the finished Word Processors sheet row 12 starts the
\* "Review & Proofing" run and is styled, row 13 continues it and is not.
C2_Witness ==
    /\ FillDone(1)
    /\ CategoryStyled(1, 12)
    /\ CellAt(cells, 1, 13, 1).value = "Review & Proofing"
    /\ Unstyled(1, 13)

\* The value of one decimal digit character.
DigitValue(ch) ==
    CASE ch = "0" -> 0 [] ch = "1" -> 1 [] ch = "2" -> 2 [] ch = "3" -> 3
      [] ch = "4" -> 4 [] ch = "5" -> 5 [] ch = "6" -> 6 [] ch = "7" -> 7
      [] ch = "8" -> 8 [] ch = "9" -> 9

RECURSIVE StrToNat(_)
\* The number a string of decimal digits denotes.
StrToNat(str) ==
    IF Len(str) = 0 THEN 0
    ELSE 10 * StrToNat(SubSeq(str, 1, Len(str) - 1)) + DigitValue(str[Len(str)])

\* C10: when the Quick Reference rows are written, there is one row per
\* domain sheet, in the order of the sheets; each row's category is the title
\* of its domain sheet and its Total Tools text denotes the number of data rows
\* written to that sheet.
C10_TotalsMatchSheets ==
    Pos(spc) > Pos(<<"ref", 4>>) =>
        /\ DataRows(4) = 3..5
        /\ Len(sheets) = 4
        /\ \A k \in 1..3 :
            /\ CellAt(cells, 4, k + 2, 1).value = sheets[k]
            /\ StrToNat(CellAt(cells, 4, k + 2, 4).value) = Cardinality(DataRows(k))

\* C10 witness: the workbook is saved, the first summary row reads '19' and
\* the Word Processors sheet holds 19 data rows.
C10_Witness ==
    /\ saved
    /\ CellAt(cells, 4, 3, 4).value = <<"1", "9">>
    /\ Cardinality(DataRows(1)) = 19
    /\ Cardinality(DataRows(3)) = 22

(***************************************************************************)
(*                  Properties of the icon generator                       *)
(***************************************************************************)

\* The size a written file was requested at, read off its name.
RequestedSize(name) == IF name[1] = "icon" THEN name[2] ELSE 180

\* Whether a written file is a maskable variant, read off its name.
IsMaskable(name) == name[3] = "-maskable.png"

LongSide(icon) == Max(icon.logo_w, icon.logo_h)

\* C3 as stated: the logo's longer side is at most s - 2*(0.1*s), or
\* s - 2*(0.2*s) for a maskable icon (in tenths of a pixel: 8*s, 6*s), and no
\* logo dimension exceeds the source's.
C3_AsStated ==
    \A n \in DOMAIN files :
        LET s == RequestedSize(n) IN
        /\ 10 * LongSide(files[n]) <= (IF IsMaskable(n) THEN 6 ELSE 8) * s
        /\ files[n].logo_w <= source.w
        /\ files[n].logo_h <= source.h

\* C3 amended: the logo's longer side is at most s - 2*padding where padding
\* is 0.1*s (0.2*s for a maskable icon) rounded down to a whole pixel, and no
\* logo dimension exceeds the source's.
C3_LogoFitsInset ==
    \A n \in DOMAIN files :
        LET s == RequestedSize(n)
            pad == IF IsMaskable(n) THEN (2 * s) \div 10 ELSE s \div 10
        IN  /\ LongSide(files[n]) <= s - 2 * pad
            /\ files[n].logo_w <= source.w
            /\ files[n].logo_h <= source.h

\* C3 witness: a 100x58 logo after a full run: scaled down to the 40-pixel box
\* of the 48 icon, left at its own size in the 1024 icon.
C3_Witness ==
    /\ ipc = "done"
    /\ source.w = 100 /\ source.h = 58
    /\ files[IconName(48, FALSE)].logo_w = 40
    /\ files[IconName(1024, FALSE)].logo_w = 100
    /\ files[IconName(512, TRUE)].logo_h = 58

\* C4 as stated: a complete run leaves len(sizes) + 2 files.
C4_AsStated == ipc = "done" => Cardinality(DOMAIN files) = Len(ICON_SIZES) + 2

\* C4 amended: a complete run leaves len(sizes) + 3 files: one standard icon
\* per size, the maskable icons of the two designated sizes, and the
\* apple-touch icon.
C4_FileCount ==
    ipc = "done" =>
        /\ Cardinality(DOMAIN files) = Len(ICON_SIZES) + 3
        /\ DOMAIN files = {IconName(ICON_SIZES[j], FALSE) : j \in 1..Len(ICON_SIZES)}
                            \cup {IconName(192, TRUE), IconName(512, TRUE)}
                            \cup {AppleName}

\* C4 witness: a run that ended without an exception.
C4_Witness == ipc = "done" /\ ~raised /\ openError = NoCall /\ Cardinality(DOMAIN files) = 16

\* C5: every written image is exactly s x s for the size s it was requested
\* at, whatever the source's dimensions.
C5_SquareOfRequestedSize ==
    \A n \in DOMAIN files :
        /\ files[n].w = RequestedSize(n)
        /\ files[n].h = RequestedSize(n)

\* C5 witness: a 1x2000 logo, and the 48, maskable 192 and apple-touch icons
\* written from it.
C5_Witness ==
    /\ ipc = "done"
    /\ source.w = 1 /\ source.h = 2000
    /\ files[IconName(48, FALSE)].w = 48
    /\ files[IconName(192, TRUE)].h = 192
    /\ files[AppleName].w = 180

\* C6: the four corner pixels of every written icon are its variant's
\* background: opaque white for a maskable icon, alpha 0 otherwise.
C6_CornersAreBackground ==
    \A n \in DOMAIN files :
        \A c \in 1..4 :
            /\ files[n].corners[c].of = "canvas"
            /\ IF IsMaskable(n)
               THEN files[n].corners[c].rgba = <<255, 255, 255, 255>>
               ELSE files[n].corners[c].rgba[4] = 0

\* C6 witness: a square logo larger than every icon, scaled to fill each logo
\* box, in a maskable and a standard icon.
C6_Witness ==
    /\ ipc = "done"
    /\ source.w = 2000 /\ source.h = 2000
    /\ files[IconName(512, TRUE)].logo_w = 308
    /\ files[IconName(512, TRUE)].corners[1].rgba = White
    /\ files[IconName(1024, FALSE)].logo_w = 820
    /\ files[IconName(1024, FALSE)].corners[4].rgba = Transparent

\* The files main() has written when it is about to make the call at (ipc, ii).
WrittenBefore ==
    {IconName(ICON_SIZES[j], FALSE) : j \in 1..(ii - 1)}
    \cup {IconName(ICON_SIZES[j], TRUE) : j \in {m \in 1..(ii - 1) : ICON_SIZES[m] \in MaskableSizes}}
    \cup (IF ipc = "maskable" THEN {IconName(ICON_SIZES[ii], FALSE)} ELSE {})
    \cup (IF ipc = "apple"
          THEN {IconName(ICON_SIZES[ii], FALSE)}
               \cup {IconName(ICON_SIZES[ii], TRUE) : m \in {ICON_SIZES[ii]} \cap MaskableSizes}
          ELSE {})

C8_CentredInsideInset ==
    \A n \in DOMAIN files :
        LET s == RequestedSize(n)
            f == files[n]
            pad == IF IsMaskable(n) THEN (2 * s) \div 10 ELSE s \div 10
        IN  /\ 2 * f.x <= s - f.logo_w /\ s - f.logo_w <= 2 * f.x + 1
            /\ 2 * f.y <= s - f.logo_h /\ s - f.logo_h <= 2 * f.y + 1
            /\ pad <= f.x /\ f.x + f.logo_w <= s - pad
            /\ pad <= f.y /\ f.y + f.logo_h <= s - pad
            /\ Abs((s - f.x - f.logo_w) - f.x) <= 1
            /\ Abs((s - f.y - f.logo_h) - f.y) <= 1

\* C8 witness: a 41x100 logo in the 48 icon: scaled to 16x40, pasted at
\* (16, 4), the padding being 4.
C8_Witness ==
    /\ source.w = 41 /\ source.h = 100
    /\ IconName(48, FALSE) \in DOMAIN files
    /\ files[IconName(48, FALSE)].logo_w = 16
    /\ files[IconName(48, FALSE)].logo_h = 40
    /\ files[IconName(48, FALSE)].x = 16
    /\ files[IconName(48, FALSE)].y = 4

\* C9: every call starts from the unmodified source: the source is never
\* changed; the logo in each written icon is the source as it is when it fits
\* the icon's logo box and otherwise has its longer side equal to the box,
\* whatever was written before; and the apple-touch icon has the content of
\* the standard 180 icon.
C9_EachCallFromSource ==
    /\ [][source' = source]_vars
    /\ [](\A n \in DOMAIN files :
            LET box == MaxLogoSize(RequestedSize(n), IsMaskable(n)) IN
            /\ (source.w <= box /\ source.h <= box) =>
                  (files[n].logo_w = source.w /\ files[n].logo_h = source.h)
            /\ ~(source.w <= box /\ source.h <= box) => LongSide(files[n]) = box
            /\ files[n].mask = (source.mode = "RGBA"))
    /\ []((AppleName \in DOMAIN files /\ IconName(180, FALSE) \in DOMAIN files)
            => files[AppleName] = files[IconName(180, FALSE)])

\* C9 witness: a 300x100 logo after a full run: 40 wide in the first icon,
\* 144 wide in both 180 icons, and its own size in the last one.
C9_Witness ==
    /\ ipc = "done"
    /\ source.w = 300 /\ source.h = 100
    /\ files[IconName(48, FALSE)].logo_w = 40
    /\ files[IconName(180, FALSE)].logo_w = 144
    /\ files[AppleName].logo_w = 144
    /\ files[IconName(1024, FALSE)].logo_w = 300
    /\ img.w = 144

====
